---------------------------- MODULE Spec2Model ----------------------------
(***************************************************************************)
(* A model of askama's template parser (src/askama/src/parser.rs).         *)
(*                                                                         *)
(* A byte is a one-character string and a byte slice is a sequence of      *)
(* bytes, so b"{{ a" is << "{", "{", " ", "a" >>.  Every parser takes a    *)
(* slice and returns an IResult: Done(rest, out), Error, Incomplete, or    *)
(* Panic when the Rust code aborts on an out-of-bounds index.  The nom     *)
(* macros the source is written with (tag_s!, opt!, ws!, alt!, many0!,     *)
(* is_not!, char!, nom::alphanumeric, do_parse!) are modelled by what nom  *)
(* 2.x does on byte slices.                                                *)
(***************************************************************************)
EXTENDS Naturals, Sequences, FiniteSets, TLC

\* input:  the byte slice handed to the function under test
\* shape:  how that input was composed (the parts it was concatenated from)
\* called: the function that has been applied to input, "none" before
\* result: what the function returned
VARIABLES input, shape, called, result

vars == << input, shape, called, result >>

(***************************************************************************)
(* Slices and options                                                      *)
(***************************************************************************)

\* &s[a..b] with Rust's 0-based, half-open indices
Slice(s, a, b) == SubSeq(s, a + 1, b)

\* &s[a..]
SliceFrom(s, a) == SubSeq(s, a + 1, Len(s))

\* &s[..b]
SliceTo(s, b) == SubSeq(s, 1, b)

None == [some |-> FALSE]

Some(x) == [some |-> TRUE, v |-> x]

\* Iterator::position over the bytes of a slice, given as the sequence of
\* the predicate's values: the 0-based index of the first TRUE
position(flags) ==
    IF \E j \in 1..Len(flags) : flags[j]
    THEN Some((CHOOSE j \in 1..Len(flags) :
                   flags[j] /\ \A k \in 1..(j - 1) : ~flags[k]) - 1)
    ELSE None

\* Iterator::rposition: the 0-based index of the last TRUE
rposition(flags) ==
    IF \E j \in 1..Len(flags) : flags[j]
    THEN Some((CHOOSE j \in 1..Len(flags) :
                   flags[j] /\ \A k \in (j + 1)..Len(flags) : ~flags[k]) - 1)
    ELSE None

(***************************************************************************)
(* IResult                                                                 *)
(***************************************************************************)

Done(rest, out) == [tag |-> "Done", rest |-> rest, out |-> out]

Error == [tag |-> "Error"]

Incomplete == [tag |-> "Incomplete"]

\* the thread panics inside the parser (an index out of bounds, or unwrap
\* on the Err of str::from_utf8)
Panic == [tag |-> "Panic"]

(***************************************************************************)
(* str::from_utf8.  An ASCII byte is the one-character string of its       *)
(* character; a byte from 0x80 on is the string of its hexadecimal value,  *)
(* "0x80" to "0xff".                                                       *)
(***************************************************************************)

Hex == << "0", "1", "2", "3", "4", "5", "6", "7",
          "8", "9", "a", "b", "c", "d", "e", "f" >>

\* the byte of value n, for n from 0x80 on
ByteName(n) == "0x" \o Hex[(n \div 16) + 1] \o Hex[(n % 16) + 1]

\* the bytes of value lo to hi, for lo from 0x80 on
ByteRange(lo, hi) == {ByteName(n) : n \in lo..hi}

\* the bytes from 0x80 on
NonAscii == ByteRange(128, 255)

\* the first bytes of the two-byte sequences, 0xC2..0xDF
Lead2 == ByteRange(194, 223)

\* the first bytes of the three-byte sequences, 0xE0..0xEF
Lead3 == ByteRange(224, 239)

\* the first bytes of the four-byte sequences, 0xF0..0xF4
Lead4 == ByteRange(240, 244)

\* the second bytes that may follow the first byte c of a sequence of
\* three or four bytes
SecondAfter(c) ==
    IF c = ByteName(224) THEN ByteRange(160, 191)
    ELSE IF c = ByteName(237) THEN ByteRange(128, 159)
    ELSE IF c = ByteName(240) THEN ByteRange(144, 191)
    ELSE IF c = ByteName(244) THEN ByteRange(128, 143)
    ELSE ByteRange(128, 191)

\* the continuation bytes, 0x80..0xBF
Continuation == ByteRange(128, 191)

\* whether the bytes of s from the 0-based index j on are well-formed UTF-8
RECURSIVE run_utf8_validation(_, _)
run_utf8_validation(s, j) ==
    IF j >= Len(s) THEN TRUE
    ELSE LET first == s[j + 1]
         IN  IF first \notin NonAscii THEN run_utf8_validation(s, j + 1)
             ELSE IF first \in Lead2
             THEN /\ j + 2 <= Len(s)
                  /\ s[j + 2] \in Continuation
                  /\ run_utf8_validation(s, j + 2)
             ELSE IF first \in Lead3
             THEN /\ j + 3 <= Len(s)
                  /\ s[j + 2] \in SecondAfter(first)
                  /\ s[j + 3] \in Continuation
                  /\ run_utf8_validation(s, j + 3)
             ELSE IF first \in Lead4
             THEN /\ j + 4 <= Len(s)
                  /\ s[j + 2] \in SecondAfter(first)
                  /\ s[j + 3] \in Continuation
                  /\ s[j + 4] \in Continuation
                  /\ run_utf8_validation(s, j + 4)
             ELSE FALSE

\* str::from_utf8(s): Ok(s), written Some(s), when s is well-formed UTF-8
\* and an Err, written None, otherwise; unwrap() panics on the Err
from_utf8(s) == IF run_utf8_validation(s, 0) THEN Some(s) ELSE None

(***************************************************************************)
(* Nodes and expressions                                                   *)
(***************************************************************************)

WS(a, b) == << a, b >>

Lit(lws, val, rws) == [k |-> "Lit", lws |-> lws, val |-> val, rws |-> rws]

StrLit(s) == [k |-> "StrLit", s |-> s]

Var(s) == [k |-> "Var", name |-> s]

Filter(name, e) == [k |-> "Filter", name |-> name, arg |-> e]

Compare(op, l, r) == [k |-> "Compare", op |-> op, left |-> l, right |-> r]

Name(s) == [k |-> "Name", name |-> s]

ExprNode(ws, e) == [k |-> "Expr", ws |-> ws, expr |-> e]

Cond(conds, ws) == [k |-> "Cond", conds |-> conds, ws |-> ws]

Loop(ws1, var, iter, body, ws2) ==
    [k |-> "Loop", ws1 |-> ws1, var |-> var, iter |-> iter,
     body |-> body, ws2 |-> ws2]

Extends(e) == [k |-> "Extends", name |-> e]

BlockDef(ws1, name, body, ws2) ==
    [k |-> "BlockDef", ws1 |-> ws1, name |-> name, body |-> body, ws2 |-> ws2]

(***************************************************************************)
(* split_ws_parts                                                          *)
(***************************************************************************)

\* the closure the source names is_ws: true of a byte that is NOT whitespace
is_ws(c) == c # " " /\ c # "\t" /\ c # "\r" /\ c # "\n"

\* Node::Lit of the three parts, each through str::from_utf8(..).unwrap()
lit(lws, val, rws) ==
    IF from_utf8(lws).some /\ from_utf8(val).some /\ from_utf8(rws).some
    THEN Lit(from_utf8(lws).v, from_utf8(val).v, from_utf8(rws).v)
    ELSE Panic

\* mutant: the core slice stops one byte early (s[start..end])
split_ws_parts_short(s) ==
    IF Len(s) = 0 THEN lit(s, s, s)
    ELSE LET start == position([j \in 1..Len(s) |-> is_ws(s[j])])
             end == rposition([j \in 1..Len(s) |-> is_ws(s[j])])
         IN  IF ~start.some THEN lit(s, << >>, << >>)
             ELSE lit(SliceTo(s, start.v), Slice(s, start.v, end.v),
                      SliceFrom(s, end.v + 1))

\* mutant: a whitespace-only span goes to the trailing part
split_ws_parts_trailing(s) ==
    IF Len(s) = 0 THEN lit(s, s, s)
    ELSE LET start == position([j \in 1..Len(s) |-> is_ws(s[j])])
             end == rposition([j \in 1..Len(s) |-> is_ws(s[j])])
         IN  IF ~start.some THEN lit(<< >>, << >>, s)
             ELSE lit(SliceTo(s, start.v), Slice(s, start.v, end.v + 1),
                      SliceFrom(s, end.v + 1))

split_ws_parts(s) ==
    IF Len(s) = 0 THEN lit(s, s, s)
    ELSE LET start == position([j \in 1..Len(s) |-> is_ws(s[j])])
         IN  IF ~start.some THEN lit(s, Slice(s, 0, 0), Slice(s, 0, 0))
             ELSE LET end == rposition([j \in 1..Len(s) |-> is_ws(s[j])])
                  IN  IF ~end.some
                      THEN lit(SliceTo(s, start.v), SliceFrom(s, start.v),
                               Slice(s, 0, 0))
                      ELSE lit(SliceTo(s, start.v),
                               Slice(s, start.v, end.v + 1),
                               SliceFrom(s, end.v + 1))

(***************************************************************************)
(* Inputs of the splitter and the content scanner: every byte string up to *)
(* a length over a small alphabet.  The splitter is private: it is given   *)
(* slices of the &str of parse, cut by take_content at ASCII bytes, and    *)
(* the as_bytes() of a str by the test, so its inputs are the byte         *)
(* strings that are well-formed UTF-8.  Its alphabet has the bytes of a    *)
(* two-byte sequence (0xC3 0xA9) and the first bytes of a three-byte and   *)
(* of a four-byte sequence (0xE2, 0xF0).                                   *)
(***************************************************************************)

MaxWsLen == 3

WsAlphabet == {" ", "\t", "\r", "\n", "a", "{",
               "0xc3", "0xa9", "0xe2", "0xf0"}

Strings(alphabet, n) == UNION {[1..m -> alphabet] : m \in 0..n}

\* the byte strings that are the bytes of a str
Strs(alphabet, n) == {s \in Strings(alphabet, n) : from_utf8(s).some}

NoResult == [k |-> "none", tag |-> "none"]

\* the shape of an input that is any byte string over its alphabet
Bytes == [kind |-> "bytes"]

InitWs ==
    /\ input \in Strs(WsAlphabet, MaxWsLen)
    /\ shape = Bytes
    /\ called = "none"
    /\ result = NoResult

Call_split_ws_parts ==
    /\ called = "none"
    /\ called' = "split_ws_parts"
    /\ result' = split_ws_parts(input)
    /\ UNCHANGED << input, shape >>

NextWs == Call_split_ws_parts

SpecWs == InitWs /\ [][NextWs]_vars

WsBytes == {" ", "\t", "\r", "\n"}

AllWs(s) == \A j \in 1..Len(s) : s[j] \in WsBytes

\* C2: for every byte span (empty and whitespace-only spans included),
\* split_ws_parts returns a Lit whose three parts concatenate back to the
\* span it was given.
C2_RoundTrip ==
    called = "split_ws_parts" =>
        /\ result # Panic
        /\ result.k = "Lit"
        /\ result.lws \o result.val \o result.rws = input

C2_Witness ==
    /\ called = "split_ws_parts"
    /\ input = << " ", "0xc3", "0xa9" >>
    /\ from_utf8(input).some
    /\ result = Lit(<< " " >>, << "0xc3", "0xa9" >>, << >>)

\* the boundaries C3 states, of a result that is a Lit
Boundaries ==
    IF AllWs(input)
    THEN /\ result.lws = input
         /\ result.val = << >>
         /\ result.rws = << >>
    ELSE /\ AllWs(result.lws)
         /\ AllWs(result.rws)
         /\ Len(result.val) > 0
         /\ result.val[1] \notin WsBytes
         /\ result.val[Len(result.val)] \notin WsBytes
         /\ result.lws \o result.val \o result.rws = input

\* C3: for every span, a whitespace-only span is returned whole as the
\* leading part, with an empty core and an empty trailing part; otherwise
\* the leading part is the maximal whitespace prefix, the trailing part the
\* maximal whitespace suffix, and the core between them starts and ends
\* with a non-whitespace byte.
C3_Boundaries ==
    called = "split_ws_parts" => (result # Panic /\ Boundaries)

C3_Witness ==
    /\ called = "split_ws_parts"
    /\ input = << " ", "\t", "\r" >>
    /\ from_utf8(input).some
    /\ result = Lit(<< " ", "\t", "\r" >>, << >>, << >>)

(***************************************************************************)
(* take_content                                                            *)
(***************************************************************************)

\* IResult::Done(rest, split_ws_parts(..)): a panic of split_ws_parts is a
\* panic of take_content
done_lit(rest, node) == IF node = Panic THEN Panic ELSE Done(rest, node)

\* the for loop of take_content from index j on (0-based)
RECURSIVE take_content_scan(_, _)
take_content_scan(i, j) ==
    IF j >= Len(i) THEN done_lit(SliceTo(i, 0), split_ws_parts(i))
    ELSE IF i[j + 1] = "{"
         THEN IF Len(i) < j + 2
              THEN done_lit(SliceTo(i, 0), split_ws_parts(i))
              ELSE IF i[j + 2] = "{" \/ i[j + 2] = "%"
                   THEN done_lit(SliceFrom(i, j),
                                 split_ws_parts(SliceTo(i, j)))
                   ELSE take_content_scan(i, j + 1)
         ELSE take_content_scan(i, j + 1)

take_content(i) ==
    IF Len(i) < 1 \/ i[1] = "{" THEN Error
    ELSE take_content_scan(i, 0)

MaxContentLen == 4

ContentAlphabet == {"{", "%", "a", " "}

InitContent ==
    /\ input \in Strings(ContentAlphabet, MaxContentLen)
    /\ shape = Bytes
    /\ called = "none"
    /\ result = NoResult

Call_take_content ==
    /\ called = "none"
    /\ called' = "take_content"
    /\ result' = take_content(input)
    /\ UNCHANGED << input, shape >>

NextContent == Call_take_content

SpecContent == InitContent /\ [][NextContent]_vars

\* whether a delimiter ({{ or {%) starts at 0-based offset j of i
DelimAt(i, j) ==
    /\ j + 2 <= Len(i)
    /\ i[j + 1] = "{"
    /\ i[j + 2] \in {"{", "%"}

\* the offset of the first delimiter of i, Len(i) when it has none
FirstDelim(i) ==
    IF \E j \in 0..Len(i) : DelimAt(i, j)
    THEN CHOOSE j \in 0..Len(i) :
             DelimAt(i, j) /\ \A k \in 0..(j - 1) : ~DelimAt(i, k)
    ELSE Len(i)

\* C4: take_content fails exactly when its input is empty or begins with
\* a delimiter; on every other input (one that begins with a lone "{"
\* included) it succeeds, the literal is the input up to the first
\* delimiter and the remainder starts at that delimiter.
C4_ContentScanner ==
    called = "take_content" =>
        LET d == FirstDelim(input)
        IN  IF Len(input) = 0 \/ d = 0
            THEN result.tag = "Error"
            ELSE /\ result.tag = "Done"
                 /\ result.rest = SliceFrom(input, d)
                 /\ result.out.lws \o result.out.val \o result.out.rws
                        = SliceTo(input, d)

\* the same statement for the inputs that do not begin with "{" and whose
\* literal is well-formed UTF-8
C4_NotBraceFirst ==
    (/\ called = "take_content"
     /\ Len(input) > 0
     /\ input[1] # "{"
     /\ from_utf8(SliceTo(input, FirstDelim(input))).some) =>
        LET d == FirstDelim(input)
        IN  /\ result.tag = "Done"
            /\ result.rest = SliceFrom(input, d)
            /\ result.out.lws \o result.out.val \o result.out.rws
                   = SliceTo(input, d)


(***************************************************************************)
(* The nom parsers the grammar is built from.  A parser built with nom's   *)
(* macros is written as a value, Tag(t), Opt(p), Ws(p), Alt(ps),           *)
(* Many0(p), DoParse(steps, f), ..., and run(p, i) applies it to the       *)
(* slice i.  A parser that is referred to before it is defined (the        *)
(* recursion through parse_template) and a parser written as a Rust fn     *)
(* are referred to by name, Call("parse_template").                        *)
(***************************************************************************)

\* tag_s!(t)
Tag(t) == [op |-> "tag_s", t |-> t]

\* char!(c)
Char(c) == [op |-> "char", c |-> c]

\* is_not!(c), for a single byte c
IsNot(c) == [op |-> "is_not", c |-> c]

\* nom::alphanumeric
Alphanumeric == [op |-> "alphanumeric"]

\* opt!(p)
Opt(p) == [op |-> "opt", p |-> p]

\* ws!(p)
Ws(p) == [op |-> "ws", p |-> p]

\* alt!(p1 | p2 | ...)
Alt(ps) == [op |-> "alt", ps |-> ps]

\* many0!(p)
Many0(p) == [op |-> "many0", p |-> p]

\* delimited!(a, b, c)
Delimited(a, b, c) == [op |-> "delimited", a |-> a, b |-> b, c |-> c]

\* map!(p, f), f the name of the closure
Map(p, f) == [op |-> "map", p |-> p, f |-> f]

\* one step of do_parse!, name: p >> (the name "_" for an unnamed step)
Step(name, p) == [name |-> name, p |-> p]

\* do_parse!(steps >> (f)), f the name of the closing expression
DoParse(steps, f) == [op |-> "do_parse", steps |-> steps, f |-> f]

\* a parser referred to by its name
Call(name) == [op |-> "call", name |-> name]

Min(a, b) == IF a < b THEN a ELSE b

\* tag_s!(t): compares the bytes both have; a mismatch is an Error, an
\* input that ends inside the tag is Incomplete
tag(i, t) ==
    LET m == Min(Len(i), Len(t))
    IN  IF SliceTo(i, m) # SliceTo(t, m) THEN Error
        ELSE IF m < Len(t) THEN Incomplete
        ELSE Done(SliceFrom(i, Len(t)), SliceTo(i, Len(t)))

\* char!(c)
char(i, c) ==
    IF Len(i) = 0 THEN Incomplete
    ELSE IF i[1] = c THEN Done(SliceFrom(i, 1), c)
    ELSE Error

\* is_not!(c): the longest non-empty run of bytes other than c
is_not(i, c) ==
    LET p == position([j \in 1..Len(i) |-> i[j] = c])
    IN  IF ~p.some THEN Done(SliceFrom(i, Len(i)), i)
        ELSE IF p.v = 0 THEN Error
        ELSE Done(SliceFrom(i, p.v), SliceTo(i, p.v))

is_space(c) == c = " " \/ c = "\t" \/ c = "\r" \/ c = "\n"

\* nom::sp, the separator of ws!: the input after its leading whitespace
sp(i) ==
    LET p == position([j \in 1..Len(i) |-> ~is_space(i[j])])
    IN  IF p.some THEN SliceFrom(i, p.v) ELSE SliceFrom(i, Len(i))

Digits == {"0", "1", "2", "3", "4", "5", "6", "7", "8", "9"}

Lower == {"a", "b", "c", "d", "e", "f", "g", "h", "i", "j", "k", "l", "m",
          "n", "o", "p", "q", "r", "s", "t", "u", "v", "w", "x", "y", "z"}

Upper == {"A", "B", "C", "D", "E", "F", "G", "H", "I", "J", "K", "L", "M",
          "N", "O", "P", "Q", "R", "S", "T", "U", "V", "W", "X", "Y", "Z"}

is_alphanumeric(c) == c \in Digits \cup Lower \cup Upper

\* nom::alphanumeric: the longest non-empty run of alphanumeric bytes
alphanumeric(i) ==
    IF Len(i) = 0 THEN Error
    ELSE LET p == position([j \in 1..Len(i) |-> ~is_alphanumeric(i[j])])
         IN  IF ~p.some THEN Done(SliceFrom(i, Len(i)), i)
             ELSE IF p.v = 0 THEN Error
             ELSE Done(SliceFrom(i, p.v), SliceTo(i, p.v))

(***************************************************************************)
(* The grammar                                                             *)
(***************************************************************************)

expr_str_lit == Map(Delimited(Char("\""), IsNot("\""), Char("\"")), "StrLit")

expr_var == Map(Alphanumeric, "Var")

target_single == Map(Alphanumeric, "Name")

expr_compare ==
    DoParse(<< Step("left", Call("expr_filtered")),
               Step("op", Ws(Alt(<< Tag(<< "=", "=" >>), Tag(<< "!", "=" >>),
                                    Tag(<< ">", "=" >>), Tag(<< ">" >>),
                                    Tag(<< "<", "=" >>), Tag(<< "<" >>) >>))),
               Step("right", Call("expr_filtered")) >>,
            "expr_compare")

expr_any == Alt(<< expr_compare, Call("expr_filtered"), expr_str_lit >>)

OpenExpr == << "{", "{" >>

CloseExpr == << "}", "}" >>

OpenStmt == << "{", "%" >>

CloseStmt == << "%", "}" >>

Dash == << "-" >>

KwIf == << "i", "f" >>

KwElse == << "e", "l", "s", "e" >>

KwEndif == << "e", "n", "d", "i", "f" >>

KwFor == << "f", "o", "r" >>

KwIn == << "i", "n" >>

KwEndfor == << "e", "n", "d", "f", "o", "r" >>

KwExtends == << "e", "x", "t", "e", "n", "d", "s" >>

KwBlock == << "b", "l", "o", "c", "k" >>

KwEndblock == << "e", "n", "d", "b", "l", "o", "c", "k" >>

expr_node ==
    DoParse(<< Step("_", Tag(OpenExpr)),
               Step("pws", Opt(Tag(Dash))),
               Step("expr", Ws(expr_any)),
               Step("nws", Opt(Tag(Dash))),
               Step("_", Tag(CloseExpr)) >>,
            "expr_node")

cond_if ==
    DoParse(<< Step("_", Ws(Tag(KwIf))),
               Step("cond", Ws(expr_any)) >>,
            "cond_if")

cond_block ==
    DoParse(<< Step("_", Tag(OpenStmt)),
               Step("pws", Opt(Tag(Dash))),
               Step("_", Ws(Tag(KwElse))),
               Step("cond", Opt(cond_if)),
               Step("nws", Opt(Tag(Dash))),
               Step("_", Tag(CloseStmt)),
               Step("block", Call("parse_template")) >>,
            "cond_block")

block_if ==
    DoParse(<< Step("_", Tag(OpenStmt)),
               Step("pws1", Opt(Tag(Dash))),
               Step("cond", Ws(cond_if)),
               Step("nws1", Opt(Tag(Dash))),
               Step("_", Tag(CloseStmt)),
               Step("block", Call("parse_template")),
               Step("elifs", Many0(cond_block)),
               Step("_", Tag(OpenStmt)),
               Step("pws2", Opt(Tag(Dash))),
               Step("_", Ws(Tag(KwEndif))),
               Step("nws2", Opt(Tag(Dash))),
               Step("_", Tag(CloseStmt)) >>,
            "block_if")

block_for ==
    DoParse(<< Step("_", Tag(OpenStmt)),
               Step("pws1", Opt(Tag(Dash))),
               Step("_", Ws(Tag(KwFor))),
               Step("var", Ws(target_single)),
               Step("_", Ws(Tag(KwIn))),
               Step("iter", Ws(expr_any)),
               Step("nws1", Opt(Tag(Dash))),
               Step("_", Tag(CloseStmt)),
               Step("block", Call("parse_template")),
               Step("_", Tag(OpenStmt)),
               Step("pws2", Opt(Tag(Dash))),
               Step("_", Ws(Tag(KwEndfor))),
               Step("nws2", Opt(Tag(Dash))),
               Step("_", Tag(CloseStmt)) >>,
            "block_for")

block_extends ==
    DoParse(<< Step("_", Tag(OpenStmt)),
               Step("_", Ws(Tag(KwExtends))),
               Step("name", Ws(expr_str_lit)),
               Step("_", Tag(CloseStmt)) >>,
            "block_extends")

block_block ==
    DoParse(<< Step("_", Tag(OpenStmt)),
               Step("pws1", Opt(Tag(Dash))),
               Step("_", Ws(Tag(KwBlock))),
               Step("name", Ws(Alphanumeric)),
               Step("nws1", Opt(Tag(Dash))),
               Step("_", Tag(CloseStmt)),
               Step("contents", Call("parse_template")),
               Step("_", Tag(OpenStmt)),
               Step("pws2", Opt(Tag(Dash))),
               Step("_", Ws(Tag(KwEndblock))),
               Step("nws2", Opt(Tag(Dash))),
               Step("_", Tag(CloseStmt)) >>,
            "block_block")

parse_template ==
    Many0(Alt(<< Call("take_content"), expr_node, block_if, block_for,
                 block_extends, block_block >>))

\* mutant: the else branches are put before the if branch
cond_branches_else_first(first, elifs) == elifs \o << first >>

\* the branches of a Cond: the if branch, then the else branches in order
cond_branches(first, elifs) == << first >> \o elifs

\* the byte slices the closure or closing expression f hands to
\* str::from_utf8(..).unwrap(), given the output o of its parser
unwrapped(f, o) ==
    CASE f \in {"StrLit", "Var", "Name"} -> << o >>
      [] f = "expr_compare" -> << o.op >>
      [] f = "block_block" -> << o.name >>
      [] OTHER -> << >>

\* whether every unwrap of f succeeds
unwraps(f, o) ==
    \A j \in 1..Len(unwrapped(f, o)) : from_utf8(unwrapped(f, o)[j]).some

\* the closures of map! and the closing expressions of do_parse!, applied
\* to the output of the parser (for do_parse!, its named outputs)
build(f, o) ==
    IF ~unwraps(f, o) THEN Panic
    ELSE
    CASE f = "StrLit" -> StrLit(from_utf8(o).v)
      [] f = "Var" -> Var(from_utf8(o).v)
      [] f = "Name" -> Name(from_utf8(o).v)
      [] f = "expr_compare" ->
             Compare(from_utf8(o.op).v, o.left, o.right)
      [] f = "expr_node" -> ExprNode(WS(o.pws.some, o.nws.some), o.expr)
      [] f = "cond_if" -> o.cond
      [] f = "cond_block" ->
             << WS(o.pws.some, o.nws.some), o.cond, o.block >>
      [] f = "block_if" ->
             Cond(cond_branches(<< WS(o.pws1.some, o.nws1.some),
                                   Some(o.cond), o.block >>,
                                o.elifs),
                  WS(o.pws2.some, o.nws2.some))
      [] f = "block_for" ->
             Loop(WS(o.pws1.some, o.nws1.some), o.var, o.iter, o.block,
                  WS(o.pws2.some, o.pws2.some))
      [] f = "block_extends" -> Extends(o.name)
      [] f = "block_block" ->
             BlockDef(WS(o.pws1.some, o.nws1.some), from_utf8(o.name).v,
                      o.contents, WS(o.pws2.some, o.pws2.some))

\* IResult::Done(rest, f(o)): a panic of f is a panic of the parser
built(rest, f, o) ==
    IF unwraps(f, o) THEN Done(rest, build(f, o)) ELSE Panic

RECURSIVE run(_, _)
RECURSIVE run_alt(_, _)
RECURSIVE run_many0(_, _, _)
RECURSIVE run_do_parse(_, _, _)

\* the while loop of expr_filtered; left[0] is read without a length check
RECURSIVE expr_filtered_loop(_, _)
expr_filtered_loop(left, expr) ==
    IF Len(left) = 0 THEN Panic
    ELSE IF left[1] # "|" THEN Done(left, expr)
    ELSE LET r == alphanumeric(SliceFrom(left, 1))
         IN  IF r.tag # "Done" THEN r
             ELSE IF ~from_utf8(r.out).some THEN Panic
             ELSE expr_filtered_loop(r.rest,
                                     Filter(from_utf8(r.out).v, expr))

\* mutant: each filter is applied to the bare variable instead of wrapping
\* the chain parsed so far
RECURSIVE expr_filtered_flat_loop(_, _, _)
expr_filtered_flat_loop(left, var, expr) ==
    IF Len(left) = 0 THEN Panic
    ELSE IF left[1] # "|" THEN Done(left, expr)
    ELSE LET r == alphanumeric(SliceFrom(left, 1))
         IN  IF r.tag # "Done" THEN r
             ELSE IF ~from_utf8(r.out).some THEN Panic
             ELSE expr_filtered_flat_loop(r.rest, var,
                                          Filter(from_utf8(r.out).v, var))

expr_filtered_flat(i) ==
    LET r == run(expr_var, i)
    IN  IF r.tag # "Done" THEN r
        ELSE expr_filtered_flat_loop(r.rest, r.out, r.out)

expr_filtered(i) ==
    LET r == run(expr_var, i)
    IN  IF r.tag # "Done" THEN r
        ELSE expr_filtered_loop(r.rest, r.out)

\* alt!: the first alternative that does not end in Error
run_alt(ps, i) ==
    IF Len(ps) = 0 THEN Error
    ELSE LET r == run(Head(ps), i)
         IN  IF r.tag = "Error" THEN run_alt(Tail(ps), i) ELSE r

\* many0!: an Error of p ends the repetition with the outputs so far and
\* the input left where it stands
run_many0(p, i, res) ==
    IF Len(i) = 0 THEN Done(i, res)
    ELSE LET r == run(p, i)
         IN  IF r.tag = "Error" THEN Done(i, res)
             ELSE IF r.tag # "Done" THEN r
             ELSE IF Len(r.rest) = Len(i) THEN Error
             ELSE run_many0(p, r.rest, Append(res, r.out))

\* do_parse!: the steps in order, each on the input the one before left;
\* the first that is not Done ends the parser with its result
run_do_parse(steps, i, o) ==
    IF Len(steps) = 0 THEN Done(i, o)
    ELSE LET r == run(Head(steps).p, i)
         IN  IF r.tag # "Done" THEN r
             ELSE run_do_parse(Tail(steps), r.rest,
                               (Head(steps).name :> r.out) @@ o)

run(p, i) ==
    CASE p.op = "tag_s" -> tag(i, p.t)
      [] p.op = "char" -> char(i, p.c)
      [] p.op = "is_not" -> is_not(i, p.c)
      [] p.op = "alphanumeric" -> alphanumeric(i)
      [] p.op = "opt" ->
             LET r == run(p.p, i)
             IN  IF r.tag = "Done" THEN Done(r.rest, Some(r.out))
                 ELSE IF r.tag = "Error" THEN Done(i, None)
                 ELSE r
      [] p.op = "ws" ->
             LET r == run(p.p, sp(i))
             IN  IF r.tag = "Done" THEN Done(sp(r.rest), r.out) ELSE r
      [] p.op = "alt" -> run_alt(p.ps, i)
      [] p.op = "many0" -> run_many0(p.p, i, << >>)
      [] p.op = "delimited" ->
             LET a == run(p.a, i) IN
             IF a.tag # "Done" THEN a ELSE
             LET b == run(p.b, a.rest) IN
             IF b.tag # "Done" THEN b ELSE
             LET c == run(p.c, b.rest) IN
             IF c.tag # "Done" THEN c ELSE Done(c.rest, b.out)
      [] p.op = "map" ->
             LET r == run(p.p, i)
             IN  IF r.tag = "Done" THEN built(r.rest, p.f, r.out) ELSE r
      [] p.op = "do_parse" ->
             LET r == run_do_parse(p.steps, i, ("_" :> << >>))
             IN  IF r.tag = "Done" THEN built(r.rest, p.f, r.out) ELSE r
      [] p.op = "call" ->
             CASE p.name = "take_content" -> take_content(i)
               [] p.name = "expr_filtered" -> expr_filtered(i)
               [] p.name = "parse_template" -> run(parse_template, i)

\* what parse does: it returns the nodes, or panics with a message
Ok(nodes) == [tag |-> "Ok", nodes |-> nodes]

Failed(msg) == [tag |-> "Failed", msg |-> msg]

\* mutant: an Incomplete parse returns an empty tree
parse_incomplete_ok(src) ==
    LET r == run(parse_template, src)
    IN  IF r.tag = "Done" THEN Ok(r.out)
        ELSE IF r.tag = "Error"
             THEN Failed("problems parsing template source")
        ELSE IF r.tag = "Incomplete" THEN Ok(<< >>)
        ELSE Panic

parse(src) ==
    LET r == run(parse_template, src)
    IN  IF r.tag = "Done" THEN Ok(r.out)
        ELSE IF r.tag = "Error"
             THEN Failed("problems parsing template source")
        ELSE IF r.tag = "Incomplete" THEN Failed("parsing incomplete")
        ELSE Panic

(***************************************************************************)
(* Inputs of the expression grammar: a filter chain, then optionally an    *)
(* operator and a second chain, then what follows the expression           *)
(***************************************************************************)

MaxFilters == 2

LeftVar == << "a", "1" >>

RightVar == << "b" >>

FilterNames == { << "f" >>, << "g", "2" >> }

FilterSeqs == UNION {[1..n -> FilterNames] : n \in 0..MaxFilters}

\* the source text of the chain v|f1|...|fn
RECURSIVE ChainText(_, _)
ChainText(v, fs) ==
    IF Len(fs) = 0 THEN v
    ELSE ChainText(v, SubSeq(fs, 1, Len(fs) - 1)) \o << "|" >> \o fs[Len(fs)]

\* the tree the grammar assigns to v|f1|...|fn: Filter(fn, ... Filter(f1, v))
RECURSIVE ChainExpr(_, _)
ChainExpr(v, fs) ==
    IF Len(fs) = 0 THEN Var(v)
    ELSE Filter(fs[Len(fs)], ChainExpr(v, SubSeq(fs, 1, Len(fs) - 1)))

Operators ==
    { << "=", "=" >>, << "!", "=" >>, << ">", "=" >>, << ">" >>,
      << "<", "=" >>, << "<" >> }

\* no operator, the six operators, and a lone "=" that is none
OpTexts == Operators \cup { << >>, << "=" >> }

\* right operands: none, a variable, a variable with one filter
RightTexts == { << >>, RightVar, RightVar \o << "|", "f" >> }

RightExpr(r) == IF r = RightVar THEN Var(RightVar)
                ELSE Filter(<< "f" >>, Var(RightVar))

ExprTails ==
    { << >>, << "}", "}" >>, << " ", "}", "}" >>, << "|" >>,
      << "-", "%", "}" >> }

ExprShapes ==
    [kind : {"expr"}, lfs : FilterSeqs, w1 : { << >>, << " " >> },
     op : OpTexts, w2 : { << >>, << "\t" >> }, right : RightTexts,
     tail : ExprTails]

ExprText(sh) ==
    ChainText(LeftVar, sh.lfs) \o sh.w1 \o sh.op \o sh.w2 \o sh.right
        \o sh.tail

InitExpr ==
    /\ shape \in ExprShapes
    /\ input = ExprText(shape)
    /\ called = "none"
    /\ result = NoResult

Call_expr_filtered ==
    /\ called = "none"
    /\ called' = "expr_filtered"
    /\ result' = expr_filtered(input)
    /\ UNCHANGED << input, shape >>

Call_expr_compare ==
    /\ called = "none"
    /\ called' = "expr_compare"
    /\ result' = run(expr_compare, input)
    /\ UNCHANGED << input, shape >>

Call_expr_any ==
    /\ called = "none"
    /\ called' = "expr_any"
    /\ result' = run(expr_any, input)
    /\ UNCHANGED << input, shape >>

NextExpr == Call_expr_filtered \/ Call_expr_compare \/ Call_expr_any

SpecExpr == InitExpr /\ [][NextExpr]_vars

\* what follows the left chain in the input
AfterLeft(sh) == sh.w1 \o sh.op \o sh.w2 \o sh.right \o sh.tail

\* C8: on a variable followed by n >= 0 filters and then a byte that is
\* neither "|" nor part of the last name, expr_filtered returns
\* Filter(fn, ... Filter(f1, Var(v))) and the remainder starts at that byte.
C8_LeftAssociative ==
    (called = "expr_filtered" /\ Len(AfterLeft(shape)) > 0
        /\ AfterLeft(shape)[1] # "|"
        /\ ~is_alphanumeric(AfterLeft(shape)[1])) =>
        result = Done(AfterLeft(shape), ChainExpr(LeftVar, shape.lfs))

C8_Witness ==
    /\ called = "expr_filtered"
    /\ input = << "a", "1", "|", "f", "|", "g", "2", "}", "}" >>
    /\ result = Done(<< "}", "}" >>,
                     Filter(<< "g", "2" >>,
                            Filter(<< "f" >>, Var(<< "a", "1" >>))))

\* whether the input is a comparison L op R, with R ended by the end of the
\* input or by a byte that does not continue it
IsComparison(sh) ==
    /\ sh.op \in Operators
    /\ sh.right # << >>
    /\ (Len(sh.tail) > 0 => sh.tail[1] # "|")

\* C9: a comparison L op R parses, by expr_any, to Compare(op, L', R')
\* with op the operator written (the longest one) and L', R' the trees of
\* the two filter chains.
C9_Comparison ==
    (called = "expr_any" /\ IsComparison(shape)) =>
        /\ result.tag = "Done"
        /\ result.out = Compare(shape.op, ChainExpr(LeftVar, shape.lfs),
                                RightExpr(shape.right))

\* the same statement for the comparisons that some byte follows
C9_ComparisonFollowed ==
    (called = "expr_any" /\ IsComparison(shape) /\ Len(shape.tail) > 0) =>
        /\ result.tag = "Done"
        /\ result.out = Compare(shape.op, ChainExpr(LeftVar, shape.lfs),
                                RightExpr(shape.right))

\* C10: expr_filtered never reads past the end of its input: when the
\* input ends after the variable or after the last filter name it returns
\* a result (Done with an empty remainder, or a parse failure) and does not
\* panic.
C10_NoReadPastEnd ==
    called = "expr_filtered" => result.tag \in {"Done", "Error", "Incomplete"}


(***************************************************************************)
(* Inputs of parse: templates composed from tags, trim markers and bodies  *)
(***************************************************************************)

MaxElse == 2

\* a (trimBefore, trimAfter) pair of markers
Marks == BOOLEAN \X BOOLEAN

Mark(b) == IF b THEN << "-" >> ELSE << >>

\* the padding written between a delimiter (or its marker) and the words
Pads == { << >>, << " " >> }

\* {% words %} with the markers m and padding pad
StmtTag(pad, m, words) ==
    OpenStmt \o Mark(m[1]) \o pad \o words \o pad \o Mark(m[2]) \o CloseStmt

\* {{ words }} with the markers m and padding pad
ExprTag(pad, m, words) ==
    OpenExpr \o Mark(m[1]) \o pad \o words \o pad \o Mark(m[2]) \o CloseExpr

DigitChars == << "0", "1", "2", "3", "4", "5", "6", "7", "8", "9" >>

Digit(k) == DigitChars[k + 1]

NoMarks == << FALSE, FALSE >>

BodyKinds == {"empty", "lit", "expr", "nested"}

\* the text of the body of branch k
BodyText(kind, k) ==
    IF kind = "empty" THEN << >>
    ELSE IF kind = "lit" THEN << " ", "x", Digit(k), "\n" >>
    ELSE IF kind = "expr"
         THEN ExprTag(<< " " >>, NoMarks, << "v", Digit(k) >>)
    ELSE StmtTag(<< " " >>, NoMarks, KwIf \o << " ", "n" >>)
             \o << Digit(k) >>
             \o StmtTag(<< " " >>, NoMarks, KwElse)
             \o << "z" >>
             \o StmtTag(<< " " >>, NoMarks, KwEndif)

\* the nodes that body stands for
BodyNodes(kind, k) ==
    IF kind = "empty" THEN << >>
    ELSE IF kind = "lit"
         THEN << Lit(<< " " >>, << "x", Digit(k) >>, << "\n" >>) >>
    ELSE IF kind = "expr"
         THEN << ExprNode(NoMarks, Var(<< "v", Digit(k) >>)) >>
    ELSE << Cond(<< << NoMarks, Some(Var(<< "n" >>)),
                       << Lit(<< >>, << Digit(k) >>, << >>) >> >>,
                    << NoMarks, None,
                       << Lit(<< >>, << "z" >>, << >>) >> >> >>,
                 NoMarks) >>

\* an else tag: bare or with a condition, and its markers
ElseTags ==
    { [cond |-> FALSE, ws |-> << FALSE, FALSE >>],
      [cond |-> TRUE, ws |-> << FALSE, FALSE >>],
      [cond |-> FALSE, ws |-> << TRUE, TRUE >>],
      [cond |-> TRUE, ws |-> << TRUE, FALSE >>] }

ElseSeqs == UNION {[1..n -> ElseTags] : n \in 0..MaxElse}

\* the name of the condition of branch k
CondName(k) == << "c", Digit(k) >>

ElseWords(e, k) ==
    IF e.cond THEN KwElse \o << " " >> \o KwIf \o << " " >> \o CondName(k)
    ELSE KwElse

\* the else tags k..n of an if-block, each followed by its body
RECURSIVE ElseText(_, _)
ElseText(sh, k) ==
    IF k > Len(sh.elses) THEN << >>
    ELSE StmtTag(sh.pad, sh.elses[k].ws, ElseWords(sh.elses[k], k))
             \o BodyText(sh.body, k) \o ElseText(sh, k + 1)

IfShapes ==
    [kind : {"if"}, pad : Pads, ws1 : Marks, elses : ElseSeqs,
     ws2 : Marks, body : BodyKinds]

IfText(sh) ==
    StmtTag(sh.pad, sh.ws1, KwIf \o << " " >> \o CondName(0))
        \o BodyText(sh.body, 0)
        \o ElseText(sh, 1)
        \o StmtTag(sh.pad, sh.ws2, KwEndif)

BlockShapes ==
    [kind : {"for", "block"}, pad : Pads, ws1 : Marks, ws2 : Marks,
     body : BodyKinds]

BlockText(sh) ==
    IF sh.kind = "for"
    THEN StmtTag(sh.pad, sh.ws1,
                 KwFor \o << " ", "x", " " >> \o KwIn \o << " ", "y" >>)
             \o BodyText(sh.body, 0)
             \o StmtTag(sh.pad, sh.ws2, KwEndfor)
    ELSE StmtTag(sh.pad, sh.ws1, KwBlock \o << " ", "b" >>)
             \o BodyText(sh.body, 0)
             \o StmtTag(sh.pad, sh.ws2, KwEndblock)

ExprTexts ==
    { << "a" >>, << "a", "|", "f" >>, << "a", " ", ">", "=", " ", "b" >>,
      << "\"", "s", "\"" >> }

InterpolationShapes ==
    [kind : {"exprnode"}, pad : Pads, ws : Marks, e : ExprTexts]

\* complete templates an interpolation may follow
Prefixes ==
    { << >>, << "x", " " >>,
      ExprTag(<< " " >>, NoMarks, << "a" >>),
      StmtTag(<< " " >>, NoMarks, KwIf \o << " ", "c" >>)
          \o StmtTag(<< " " >>, NoMarks, KwEndif) }

\* what follows the opening quote of a string literal that is never closed
OpenStrings ==
    { << >>, << "a", "b", "c", " ", "}", "}" >>,
      << "a", "}", "}", "{", "{", " ", "b", " ", "}", "}" >>,
      << "%", "}", "x" >> }

\* an interpolation whose expression is a string literal with no closing
\* quote before the end of the input
UnterminatedShapes ==
    [kind : {"unterminated"}, pre : Prefixes, pad : Pads, dash : BOOLEAN,
     str : OpenStrings]

UnterminatedText(sh) ==
    sh.pre \o OpenExpr \o Mark(sh.dash) \o sh.pad \o << "\"" >> \o sh.str

\* fragments no alternative of the grammar matches
Fragments ==
    { OpenExpr \o << " ", "a", " ", "}", "x" >>,
      OpenExpr \o << " " >> \o CloseExpr,
      ExprTag(<< " " >>, NoMarks, << "a", " ", "b" >>),
      StmtTag(<< " " >>, NoMarks, KwEndif),
      StmtTag(<< " " >>, NoMarks, KwIf) \o << " ", "z" >>,
      StmtTag(<< " " >>, NoMarks, KwExtends \o << " ", "n" >>),
      StmtTag(<< " " >>, NoMarks, << "x", "y", "z", "1", "2" >>) }

FragmentShapes ==
    [kind : {"fragment"}, pre : Prefixes, frag : Fragments,
     post : { << >>, << "y", "y", "y" >> }]

FragmentText(sh) == sh.pre \o sh.frag \o sh.post

\* complete templates, to be cut short
Bases ==
    << StmtTag(<< " " >>, NoMarks, KwIf \o << " ", "c" >>) \o << "x" >>
           \o ExprTag(<< >>, NoMarks, << "a" >>)
           \o StmtTag(<< " " >>, NoMarks, KwEndif),
       << "y", " " >>
           \o ExprTag(<< " " >>, << TRUE, TRUE >>, << "\"", "s", "\"" >>) >>

\* every proper, non-empty prefix of a base
TruncatedShapes ==
    UNION { { [kind |-> "truncated", base |-> b, cut |-> c] :
                c \in 1..(Len(Bases[b]) - 1) } : b \in 1..Len(Bases) }

TruncatedText(sh) == SliceTo(Bases[sh.base], sh.cut)

InitParse ==
    /\ \/ shape \in IfShapes /\ input = IfText(shape)
       \/ shape \in BlockShapes /\ input = BlockText(shape)
       \/ /\ shape \in InterpolationShapes
          /\ input = ExprTag(shape.pad, shape.ws, shape.e)
       \/ shape \in UnterminatedShapes /\ input = UnterminatedText(shape)
       \/ shape \in FragmentShapes /\ input = FragmentText(shape)
       \/ shape \in TruncatedShapes /\ input = TruncatedText(shape)
    /\ called = "none"
    /\ result = NoResult

Call_parse ==
    /\ called = "none"
    /\ called' = "parse"
    /\ result' = parse(input)
    /\ UNCHANGED << input, shape >>

NextParse == Call_parse

SpecParse == InitParse /\ [][NextParse]_vars


\* C1: parse is all-or-nothing: it returns nodes only if the grammar
\* consumed the whole input; when a fragment is matched by no alternative
\* and input remains, it fails and does not return the nodes parsed so far.
C1_AllOrNothing ==
    (called = "parse" /\ result.tag = "Ok") =>
        LET r == run(parse_template, input)
        IN  r.tag = "Done" /\ r.rest = << >>

\* the markers recorded for the else tags of an if-block
ElseMarksRecorded(sh, conds) ==
    \A k \in 1..Len(sh.elses) : conds[k + 1][1] = sh.elses[k].ws

\* C5: the pair recorded for a tag is (a "-" follows the opening
\* delimiter, a "-" precedes the closing delimiter), for the expression
\* node and the if, else, endif, for, endfor, block and endblock tags; the
\* ws_end of a Loop and of a BlockDef holds the two markers of the end tag.
C5_TrimMarkers ==
    (called = "parse" /\ result.tag = "Ok") =>
        /\ shape.kind = "exprnode" => result.nodes[1].ws = shape.ws
        /\ shape.kind = "if" =>
               /\ result.nodes[1].conds[1][1] = shape.ws1
               /\ ElseMarksRecorded(shape, result.nodes[1].conds)
               /\ result.nodes[1].ws = shape.ws2
        /\ shape.kind \in {"for", "block"} =>
               /\ result.nodes[1].ws1 = shape.ws1
               /\ result.nodes[1].ws2 = shape.ws2

\* the same statement without the end tags of for and block
C5_OtherTags ==
    (called = "parse" /\ result.tag = "Ok") =>
        /\ shape.kind = "exprnode" => result.nodes[1].ws = shape.ws
        /\ shape.kind = "if" =>
               /\ result.nodes[1].conds[1][1] = shape.ws1
               /\ ElseMarksRecorded(shape, result.nodes[1].conds)
               /\ result.nodes[1].ws = shape.ws2
        /\ shape.kind \in {"for", "block"} =>
               result.nodes[1].ws1 = shape.ws1

\* the condition the k-th else tag of the shape stands for
ElseCond(sh, k) ==
    IF sh.elses[k].cond THEN Some(Var(CondName(k))) ELSE None

\* C6: a successfully parsed if-block with n else tags is one Cond with
\* n + 1 branches in source order: the first has the condition of the if
\* tag and the first body, branch k + 1 has the condition of the k-th else
\* tag (present iff the tag is "else if") and the body after that tag.
C6_Branches ==
    (called = "parse" /\ shape.kind = "if" /\ result.tag = "Ok") =>
        /\ Len(result.nodes) = 1
        /\ result.nodes[1].k = "Cond"
        /\ LET conds == result.nodes[1].conds
           IN  /\ Len(conds) = Len(shape.elses) + 1
               /\ conds[1][2] = Some(Var(CondName(0)))
               /\ conds[1][3] = BodyNodes(shape.body, 0)
               /\ \A k \in 1..Len(shape.elses) :
                      /\ conds[k + 1][2] = ElseCond(shape, k)
                      /\ conds[k + 1][3] = BodyNodes(shape.body, k)

C6_Witness ==
    /\ called = "parse"
    /\ shape.kind = "if"
    /\ Len(shape.elses) = 2
    /\ shape.elses[1].cond
    /\ ~shape.elses[2].cond
    /\ shape.body = "nested"
    /\ result.tag = "Ok"
    /\ Len(result.nodes[1].conds) = 3
    /\ result.nodes[1].conds[2][2] = Some(Var(<< "c", "1" >>))
    /\ result.nodes[1].conds[3][2] = None

\* C7: a template with an interpolation whose string literal has no
\* closing quote before the end of the input makes parse fail; parse never
\* returns a tree for it.
C7_UnterminatedFails ==
    (called = "parse" /\ shape.kind = "unterminated") =>
        result.tag = "Failed"

C7_Witness ==
    /\ called = "parse"
    /\ input = << "{", "{", " ", "\"", "a", "b", "c", " ", "}", "}" >>
    /\ result = Failed("parsing incomplete")

=============================================================================
